---- MODULE Spec2Model ----
(***************************************************************************)
(* A model of the quiz engine of src/QuizGame.py: the question-bank parser *)
(* (_load_questions_from_file), the session state of QuizGame              *)
(* (configure_session, display_question, check_answer,                     *)
(* shuffle_question_bank, reset_game), the save/resume codec (save_game,   *)
(* load_game) and the play loop.                                           *)
(*                                                                         *)
(* A Python str is a sequence of one-character strings, so that strip,     *)
(* upper, lower, split, startswith, isalpha, isdigit and ord are computed  *)
(* as Python computes them (over ASCII).                                   *)
(***************************************************************************)
EXTENDS Integers, Sequences, FiniteSets, TLC

\* ------------------------------------------------------------------ bounds

\* check_answer is not taken once score exceeds MaxScore (shuffle lets a
\* caller answer the same questions for ever).
MaxScore == 2
\* limit and num_questions range over -1 .. MaxLimit, and None.
MaxLimit == 2

\* The most lines a generated questions file has after its two headers.
MaxTail == 6

\* ------------------------------------------------------- characters, str

\* Python's None where a str is expected (no str equals it: a str is made of
\* single characters), and where a Question is expected.
None == << "None" >>

NoQuestion == [none |-> TRUE]

\* The printable ASCII characters in code order, from chr(32) to chr(126);
\* "dquote", "bslash" and "btick" stand for chr(34), chr(92) and chr(96).
Ascii ==
  << " ", "!", "dquote", "#", "$", "%", "&", "'", "(", ")", "*", "+", ",",
     "-", ".", "/", "0", "1", "2", "3", "4", "5", "6", "7", "8", "9", ":",
     ";", "<", "=", ">", "?", "@", "A", "B", "C", "D", "E", "F", "G", "H",
     "I", "J", "K", "L", "M", "N", "O", "P", "Q", "R", "S", "T", "U", "V",
     "W", "X", "Y", "Z", "[", "bslash", "]", "^", "_", "btick", "a", "b", "c",
     "d", "e", "f", "g", "h", "i", "j", "k", "l", "m", "n", "o", "p", "q",
     "r", "s", "t", "u", "v", "w", "x", "y", "z", "{", "|", "}", "~" >>

Tab == "\t"

Char == {Ascii[k] : k \in 1..Len(Ascii)} \cup {Tab}

\* ord(c)
OrdMap == [c \in Char |-> IF c = Tab THEN 9
                          ELSE 31 + (CHOOSE k \in 1..Len(Ascii) : Ascii[k] = c)]

Ord(c) == OrdMap[c]

\* chr(n), for 32 <= n <= 126
Chr(n) == Ascii[n - 31]

\* c.upper(), c.lower(), c.isalpha(), c.isdigit(), c.isspace() of one character
UpperChar(c) == IF Ord(c) >= 97 /\ Ord(c) <= 122 THEN Chr(Ord(c) - 32) ELSE c

LowerChar(c) == IF Ord(c) >= 65 /\ Ord(c) <= 90 THEN Chr(Ord(c) + 32) ELSE c

IsAlphaChar(c) == \/ Ord(c) >= 65 /\ Ord(c) <= 90
                  \/ Ord(c) >= 97 /\ Ord(c) <= 122

IsDigitChar(c) == Ord(c) >= 48 /\ Ord(c) <= 57

IsSpaceChar(c) == c = " " \/ c = Tab

\* s.upper(), s.lower()
Upper(s) == [k \in 1..Len(s) |-> UpperChar(s[k])]

Lower(s) == [k \in 1..Len(s) |-> LowerChar(s[k])]

\* s.isalpha(), s.isdigit(): every character is one, and there is at least one
IsAlpha(s) == Len(s) > 0 /\ \A k \in 1..Len(s) : IsAlphaChar(s[k])

IsDigit(s) == Len(s) > 0 /\ \A k \in 1..Len(s) : IsDigitChar(s[k])

\* s.strip()
RECURSIVE LStrip(_)
LStrip(s) == IF s # <<>> /\ IsSpaceChar(Head(s)) THEN LStrip(Tail(s)) ELSE s

RECURSIVE RStrip(_)
RStrip(s) == IF s # <<>> /\ IsSpaceChar(s[Len(s)])
             THEN RStrip(SubSeq(s, 1, Len(s) - 1)) ELSE s

Strip(s) == RStrip(LStrip(s))

\* s.startswith(p)
StartsWith(s, p) == Len(s) >= Len(p) /\ SubSeq(s, 1, Len(p)) = p

\* c in s
Contains(s, c) == \E k \in 1..Len(s) : s[k] = c

\* The position of the first c in s, or 0.
FirstPos(s, c) == IF Contains(s, c)
                  THEN CHOOSE k \in 1..Len(s) :
                         s[k] = c /\ \A j \in 1..(k - 1) : s[j] # c
                  ELSE 0

\* s.split(c, 1)[0]: all of s when c is not in it
SplitBefore(s, c) == IF Contains(s, c) THEN SubSeq(s, 1, FirstPos(s, c) - 1) ELSE s

\* s.split(c, 1)[1], for c in s
SplitAfter(s, c) == SubSeq(s, FirstPos(s, c) + 1, Len(s))

\* ------------------------------------------------- program constants, data

ELEMENTARY == << "E", "L", "E", "M", "E", "N", "T", "A", "R", "Y" >>

HIGH_SCHOOL == << "H", "I", "G", "H", " ", "S", "C", "H", "O", "O", "L" >>

Easy == << "E", "a", "s", "y" >>

Medium == << "M", "e", "d", "i", "u", "m" >>

Hard == << "H", "a", "r", "d" >>

GRADE_LEVELS == << ELEMENTARY, HIGH_SCHOOL >>

DIFFICULTIES == << Easy, Medium, Hard >>

\* The tags of GRADE_LEVELS and of DIFFICULTIES, as sets: what _choose offers.
GradeTags == {GRADE_LEVELS[k] : k \in 1..Len(GRADE_LEVELS)}

DifficultyTags == {DIFFICULTIES[k] : k \in 1..Len(DIFFICULTIES)}

\* The header prefixes the parser looks for.
ELEMENTARY_LEVEL == << "E", "L", "E", "M", "E", "N", "T", "A", "R", "Y", " ", "L", "E", "V", "E", "L" >>

HIGH_SCHOOL_LEVEL == << "H", "I", "G", "H", " ", "S", "C", "H", "O", "O", "L", " ", "L", "E", "V", "E", "L" >>

\* x in seq
InSeq(x, seq) == \E k \in 1..Len(seq) : seq[k] = x

\* Every tier mapped to the class of the first one.
DiffToFirstClass(d) == "EasyQuestion"

DIFF_TO_CLASS(d) == CASE d = Easy -> "EasyQuestion"
                      [] d = Medium -> "MediumQuestion"
                      [] d = Hard -> "HardQuestion"

\* Question(question_text, answers, correct_answer) and its three subclasses
NewQuestion(cls, question_text, answers, correct_answer) ==
  [cls |-> cls, question_text |-> question_text, answers |-> answers,
   correct_answer |-> correct_answer]

\* hasattr(q, "get_points"): the base class defines no get_points
HasGetPoints(q) == q.cls \in {"EasyQuestion", "MediumQuestion", "HardQuestion"}

get_points(q) == CASE q.cls = "EasyQuestion" -> 1
                   [] q.cls = "MediumQuestion" -> 3
                   [] q.cls = "HardQuestion" -> 5

\* ------------------------------------------------------------ bank files

\* A bank with ELEMENTARY/Easy (2 blocks), ELEMENTARY/Medium (1 block, answer
\* line "Answer: E") and HIGH SCHOOL/Hard (1 block); a blank line, a tab, an
\* option line without ")", a numbered line before any difficulty header.
BankA ==
  << << "E", "L", "E", "M", "E", "N", "T", "A", "R", "Y", " ", "L", "E", "V", "E", "L" >>,
     << "E", "a", "s", "y", ":" >>,
     << "1", ".", " ", "2", "+", "2", "?" >>,
     << "a", ")", " ", "3" >>,
     << "b", ")", " ", "4" >>,
     << "c", ")", " ", "5" >>,
     << "d", ")", " ", "6" >>,
     << "A", "n", "s", "w", "e", "r", ":", " ", "B" >>,
     << >>,
     << "2", ".", "\t", "a", "b", "?" >>,
     << "a", ")", " ", "A", "b" >>,
     << "b", ")", " ", "c", "D" >>,
     << " ", "c", ")", " ", "a", "b" >>,
     << "x" >>,
     << "A", "n", "s", "w", "e", "r", ":", " ", "c" >>,
     << "M", "e", "d", "i", "u", "m" >>,
     << "3", ".", " ", "e", "?" >>,
     << "a", ")", " ", "3" >>,
     << "b", ")", " ", "4" >>,
     << "c", ")", " ", "5" >>,
     << "d", ")", " ", "6" >>,
     << "A", "n", "s", "w", "e", "r", ":", " ", "E" >>,
     << "h", "i", "g", "h", " ", "s", "c", "h", "o", "o", "l", " ", "l", "e", "v", "e", "l", ":" >>,
     << "9", ".", " ", "n", "o", "?" >>,
     << "H", "a", "r", "d" >>,
     << "4", ".", " ", "x", "?" >>,
     << "a", ")", " ", "3" >>,
     << "b", ")", " ", "4" >>,
     << "c", ")", " ", "5" >>,
     << "d", ")", " ", "6" >>,
     << "A", "n", "s", "w", "e", "r", ":", " ", "D", ")" >>,
     << "t", "h", "e", " ", "e", "n", "d" >> >>

\* A bank whose only block is cut off after two option lines.
BankB ==
  << << "H", "I", "G", "H", " ", "S", "C", "H", "O", "O", "L", " ", "L", "E", "V", "E", "L" >>,
     << "H", "a", "r", "d" >>,
     << "1", ".", " ", "q", "?" >>,
     << "a", ")", " ", "3" >>,
     << "b", ")", " ", "4" >> >>

BankFiles == {BankA, BankB}

\* A bank with a difficulty line before any grade, a question-like line before
\* any difficulty, a block whose option lines read as headers, and a block cut
\* short in the middle of the file by the header of the next one.
BankC ==
  << << "H", "a", "r", "d" >>,
     << "E", "L", "E", "M", "E", "N", "T", "A", "R", "Y", " ", "L", "E", "V", "E", "L" >>,
     << "1", ".", " ", "s", "k", "i", "p", "p", "e", "d", "?" >>,
     << "M", "e", "d", "i", "u", "m", ":" >>,
     << "1", ".", " ", "m", "?" >>,
     << "a", ")", " ", "3" >>,
     << "E", "a", "s", "y" >>,
     << "c", ")", " ", "5" >>,
     << "H", "I", "G", "H", " ", "S", "C", "H", "O", "O", "L", " ", "L", "E", "V", "E", "L" >>,
     << "A", "n", "s", "w", "e", "r", ":", " ", "a" >>,
     << "2", ".", " ", "c", "u", "t", "?" >>,
     << "a", ")", " ", "1" >>,
     << "b", ")", " ", "2" >>,
     << "3", ".", " ", "n", "e", "x", "t", "?" >>,
     << "a", ")", " ", "1" >>,
     << "A", "n", "s", "w", "e", "r", ":", " ", "B" >>,
     << "b", ")", " ", "2" >>,
     << "E", "a", "s", "y" >>,
     << >>,
     << "4", ".", " ", "z", "?" >>,
     << "a", ")", " ", "1" >>,
     << "b", ")", " ", "2" >>,
     << "c", ")", " ", "3" >>,
     << "d", ")", " ", "4" >>,
     << "A", "n", "s", "w", "e", "r", ":", " ", "d" >> >>

\* A bank whose question header holds digits and no period.
BankD ==
  << << "E", "L", "E", "M", "E", "N", "T", "A", "R", "Y", " ", "L", "E", "V", "E", "L" >>,
     << "E", "a", "s", "y" >>,
     << "1", "2", "3" >> >>

\* A bank whose answer line holds nothing after the colon.
BankE ==
  << << "H", "I", "G", "H", " ", "S", "C", "H", "O", "O", "L", " ", "L", "E", "V", "E", "L" >>,
     << "M", "e", "d", "i", "u", "m" >>,
     << "1", ".", " ", "q", "?" >>,
     << "a", ")", " ", "3" >>,
     << "b", ")", " ", "4" >>,
     << "c", ")", " ", "5" >>,
     << "d", ")", " ", "6" >>,
     << "A", "n", "s", "w", "e", "r", ":" >> >>

\* A bank that ends after the four option lines of its second block.
BankF ==
  << << "H", "I", "G", "H", " ", "S", "C", "H", "O", "O", "L", " ", "L", "E", "V", "E", "L" >>,
     << "E", "a", "s", "y" >>,
     << "1", ".", " ", "q", "?" >>,
     << "a", ")", " ", "3" >>,
     << "b", ")", " ", "4" >>,
     << "c", ")", " ", "5" >>,
     << "d", ")", " ", "6" >>,
     << "A", "n", "s", "w", "e", "r", ":", " ", "A" >>,
     << "2", ".", " ", "r", "?" >>,
     << "a", ")", " ", "3" >>,
     << "b", ")", " ", "4" >>,
     << "c", ")", " ", "5" >>,
     << "d", ")", " ", "6" >> >>

\* The lines generated files are made of: a grade header, a difficulty
\* header and a question header.
LineAlphabet ==
  { << "E", "L", "E", "M", "E", "N", "T", "A", "R", "Y", " ", "L", "E", "V", "E", "L" >>,
    << "E", "a", "s", "y" >>,
    << "1", ".", " ", "q", "?" >> }

\* The grade header and the difficulty header a generated file starts with.
SectionHead ==
  << << "E", "L", "E", "M", "E", "N", "T", "A", "R", "Y", " ", "L", "E", "V", "E", "L" >>,
     << "E", "a", "s", "y" >> >>

\* Every file of the two headers and at most MaxTail such lines, in any order.
GeneratedFiles ==
  { SectionHead \o tail :
      tail \in UNION { [1..n -> LineAlphabet] : n \in 0..MaxTail } }

\* The files the parser alone is run on.
ParseFiles == {BankA, BankB, BankC, BankD, BankE, BankF}

\* ------------------------------------------------------------------ state

VARIABLES
  lines,            \* the lines of the questions file, as read
  i,                \* _load_questions_from_file: the scan index (0-based)
  grade,            \* _load_questions_from_file: the current grade, or None
  difficulty,       \* _load_questions_from_file: the current difficulty, or None
  all_questions,    \* self._all_questions: grade -> difficulty -> questions
  question_bank,    \* self.question_bank: the session's pool
  score,            \* self.score
  current_index,    \* self._current_index: the cursor (0-based)
  session_meta,     \* self._session_meta
  savefile,         \* the content of savegame.json, or NoFile
  pc,               \* where the program is: parsing, failed, idle, in play's loop
  last,             \* the last call made: its name, input and outcome
  calls,            \* check_answer calls since the last configure_session, or -1
  snap,             \* the session state at the last save_game
  shadow            \* the session a resumed one is compared with: the saved
                    \* one, had it gone on without the save and the load

vars == << lines, i, grade, difficulty, all_questions, question_bank, score,
           current_index, session_meta, savefile, pc, last,
           calls, snap, shadow >>

parserVars == << lines, i, grade, difficulty, all_questions >>

sessionVars == << question_bank, score, current_index, session_meta >>

\* The record of a call: op its name, input the str given to check_answer,
\* err the exception raised ("none" when it returned), ret what it returned
\* when that is a bool, q the question it returned or answered, player the
\* _score play left in the Player it was given (-1: no Player was touched).
Call(op, input, err, ret, q) ==
  [op |-> op, input |-> input, err |-> err, ret |-> ret, q |-> q, player |-> -1]

EmptyMeta == [grade_level |-> << >>, difficulty |-> << >>]

NoFile == [absent |-> TRUE]

NoSnap == [taken |-> FALSE]

NoShadow == [on |-> FALSE]

\* ----------------------------------------------------------------- parser

\* _looks_like_qnum(line)
looks_like_qnum(line) == Len(line) > 2 /\ IsDigit(Strip(SplitBefore(line, ".")))

\* _parse_question_block(lines, start_idx) raises IndexError when the header
\* holds no ".", when an option line or the answer line is past the end of
\* lines, and when nothing is left of the answer line to take correct[0] from.
AnswerText(ans_line) == IF Contains(ans_line, ":")
                        THEN Strip(SplitAfter(ans_line, ":"))
                        ELSE Strip(ans_line)

ChoiceText(choice_line) == IF Contains(choice_line, ")")
                           THEN Strip(SplitAfter(choice_line, ")"))
                           ELSE choice_line

BlockRaises(ls, start_idx) ==
  IF ~Contains(ls[start_idx + 1], ".") THEN TRUE
  ELSE IF Len(ls) < start_idx + 6 THEN TRUE
  ELSE AnswerText(Strip(ls[start_idx + 6])) = << >>

\* q_text, answers, correct and the returned next index of a block that parses
BlockText(ls, start_idx) == Strip(SplitAfter(ls[start_idx + 1], "."))

BlockAnswers(ls, start_idx) ==
  [k \in 1..4 |-> ChoiceText(Strip(ls[start_idx + 1 + k]))]

BlockCorrect(ls, start_idx) ==
  << UpperChar(AnswerText(Strip(ls[start_idx + 6]))[1]) >>

\* The index of the line after the header.
BlockNextLine(start_idx) == start_idx + 1

BlockNext(start_idx) == start_idx + 6

\* What one iteration of the scan loop takes lines[i].strip() to be.
LineKind(line, g, d) ==
  CASE line = << >> -> "blank"
    [] line # << >> /\ StartsWith(Upper(line), ELEMENTARY_LEVEL) -> "elementary"
    [] line # << >> /\ ~StartsWith(Upper(line), ELEMENTARY_LEVEL)
       /\ StartsWith(Upper(line), HIGH_SCHOOL_LEVEL) -> "high school"
    [] OTHER ->
       IF StartsWith(line, Easy) /\ g # None THEN "Easy"
       ELSE IF StartsWith(line, Medium) /\ g # None THEN "Medium"
       ELSE IF StartsWith(line, Hard) /\ g # None THEN "Hard"
       ELSE IF g # None /\ d # None /\ looks_like_qnum(line) THEN "question"
       ELSE "other"

CurrentKind == LineKind(Strip(lines[i + 1]), grade, difficulty)

Scanning == pc = "parsing" /\ i < Len(lines)

ParseBlank ==
  /\ Scanning /\ CurrentKind = "blank"
  /\ i' = i + 1
  /\ last' = Call("parse", << i >>, "none", CurrentKind, NoQuestion)
  /\ UNCHANGED << lines, grade, difficulty, all_questions, sessionVars,
                  savefile, pc, calls, snap, shadow >>

ParseGradeHeader ==
  /\ Scanning /\ CurrentKind \in {"elementary", "high school"}
  /\ grade' = IF CurrentKind = "elementary" THEN ELEMENTARY ELSE HIGH_SCHOOL
  /\ difficulty' = None
  /\ i' = i + 1
  /\ last' = Call("parse", << i >>, "none", CurrentKind, NoQuestion)
  /\ UNCHANGED << lines, all_questions, sessionVars, savefile,
                  pc, calls, snap, shadow >>

ParseDifficultyHeader ==
  /\ Scanning /\ CurrentKind \in {"Easy", "Medium", "Hard"}
  /\ difficulty' = CASE CurrentKind = "Easy" -> Easy
                     [] CurrentKind = "Medium" -> Medium
                     [] CurrentKind = "Hard" -> Hard
  /\ i' = i + 1
  /\ last' = Call("parse", << i >>, "none", CurrentKind, NoQuestion)
  /\ UNCHANGED << lines, grade, all_questions, sessionVars, savefile, pc, calls, snap, shadow >>

ParseQuestion ==
  /\ Scanning /\ CurrentKind = "question"
  /\ ~BlockRaises(lines, i)
  /\ i' = BlockNext(i)
  /\ all_questions' =
       [all_questions EXCEPT ![grade][difficulty] =
          Append(@, NewQuestion(DIFF_TO_CLASS(difficulty), BlockText(lines, i),
                                BlockAnswers(lines, i), BlockCorrect(lines, i)))]
  /\ last' = Call("parse", << i >>, "none", CurrentKind, NoQuestion)
  /\ UNCHANGED << lines, grade, difficulty, sessionVars, savefile, pc, calls, snap, shadow >>

\* A block that raises passed over as any other line is.
ParseQuestionSkipped ==
  /\ Scanning /\ CurrentKind = "question"
  /\ BlockRaises(lines, i)
  /\ i' = i + 1
  /\ last' = Call("parse", << i >>, "none", CurrentKind, NoQuestion)
  /\ UNCHANGED << lines, grade, difficulty, all_questions, sessionVars,
                  savefile, pc, calls, snap, shadow >>

\* The IndexError is caught nowhere: no QuizGame is constructed.
ParseQuestionFail ==
  /\ Scanning /\ CurrentKind = "question"
  /\ BlockRaises(lines, i)
  /\ pc' = "failed"
  /\ last' = Call("parse", << i >>, "IndexError", CurrentKind, NoQuestion)
  /\ UNCHANGED << parserVars, sessionVars, savefile, calls, snap, shadow >>

\* A line that is skipped with the scan index left where it is.
ParseSkipStays ==
  /\ Scanning /\ CurrentKind = "other"
  /\ i' = i
  /\ last' = Call("parse", << i >>, "none", CurrentKind, NoQuestion)
  /\ UNCHANGED << lines, grade, difficulty, all_questions, sessionVars,
                  savefile, pc, calls, snap, shadow >>

ParseSkip ==
  /\ Scanning /\ CurrentKind = "other"
  /\ i' = i + 1
  /\ last' = Call("parse", << i >>, "none", CurrentKind, NoQuestion)
  /\ UNCHANGED << lines, grade, difficulty, all_questions, sessionVars,
                  savefile, pc, calls, snap, shadow >>

ParseDone ==
  /\ pc = "parsing" /\ i >= Len(lines)
  /\ pc' = "idle"
  /\ last' = Call("__init__", << >>, "none", "-", NoQuestion)
  /\ UNCHANGED << parserVars, sessionVars, savefile, calls, snap, shadow >>

Parse == \/ ParseBlank \/ ParseGradeHeader \/ ParseDifficultyHeader
         \/ ParseQuestion \/ ParseQuestionFail \/ ParseSkip \/ ParseDone

\* QuizGame.__init__, up to the call of _load_questions_from_file
InitOn(files) ==
  /\ lines \in files
  /\ i = 0
  /\ grade = None
  /\ difficulty = None
  /\ all_questions = [g \in {ELEMENTARY, HIGH_SCHOOL} |->
                        [d \in {Easy, Medium, Hard} |-> << >>]]
  /\ question_bank = << >>
  /\ score = 0
  /\ current_index = 0
  /\ session_meta = EmptyMeta
  /\ savefile = NoFile
  /\ pc = "parsing"
  /\ last = Call("__init__", << >>, "none", "-", NoQuestion)
  /\ calls = -1
  /\ snap = NoSnap
  /\ shadow = NoShadow

Init == InitOn(BankFiles)

InitParse == InitOn(ParseFiles)

InitScan == InitOn(ParseFiles \cup GeneratedFiles)

\* ---------------------------------------------------------------- inputs

\* grade_level arguments given to configure_session
GradeInputs ==
  { << "E", "L", "E", "M", "E", "N", "T", "A", "R", "Y" >>,
    << "e", "l", "e", "m", "e", "n", "t", "a", "r", "y" >>,
    << "H", "I", "G", "H", " ", "S", "C", "H", "O", "O", "L" >>,
    << "M", "I", "D", "D", "L", "E" >> }

\* difficulty arguments given to configure_session
DifficultyInputs ==
  { << "E", "a", "s", "y" >>,
    << "M", "e", "d", "i", "u", "m" >>,
    << "H", "a", "r", "d" >>,
    << "e", "a", "s", "y" >> }

\* An Optional[int] is << >> for None and << k >> for the int k.
LimitInputs == {<< >>} \cup {<< k >> : k \in (-1)..MaxLimit}

\* What a caller gives check_answer, and a player types at the prompt.
AnswerInputs ==
  { << "b" >>,
    << "B" >>,
    << "4" >>,
    << " ", "c", " " >>,
    << "A", "B" >>,
    << "x" >>,
    << "e" >>,
    << "C", "D" >>,
    << "D" >>,
    << "6" >> }

\* The fewer inputs of the specification that takes every operation.
FewGrades ==
  { << "E", "L", "E", "M", "E", "N", "T", "A", "R", "Y" >>,
    << "M", "I", "D", "D", "L", "E" >> }

FewDifficulties ==
  { << "E", "a", "s", "y" >>,
    << "M", "e", "d", "i", "u", "m" >> }

FewLimits == {<< >>, << 1 >>}

FewAnswers ==
  { << "b" >>,
    << "A" >>,
    << "e" >> }

\* savegame.json as somebody other than save_game wrote it: a record of another
\* point value and a lower-case letter; a file without meta and whose second
\* record has no answers.
EditedSave1 ==
  [meta |-> [grade_level |-> ELEMENTARY, difficulty |-> Easy],
   score |-> 2,
   current_index |-> 3,
   remaining |-> << [question_text |-> << "t", "?" >>,
                     answers |-> << << "3" >>, << "4" >>, << "5" >>, << "6" >> >>,
                     correct |-> << "a" >>,
                     points |-> 7] >>]

EditedSave2 ==
  [score |-> 1,
   remaining |-> << [question_text |-> << "u", "?" >>,
                     answers |-> << << "3" >>, << "4" >>, << "5" >>, << "6" >> >>,
                     correct |-> << "B" >>,
                     points |-> 3],
                    [question_text |-> << "v", "?" >>,
                     correct |-> << "A" >>,
                     points |-> 1] >>]

EditedSaves == {EditedSave1, EditedSave2}

\* ------------------------------------------------------------- helpers

Max(a, b) == IF a >= b THEN a ELSE b

Min(a, b) == IF a <= b THEN a ELSE b

\* seq[:k] for k >= 0, and seq[k:] for 0 <= k
Prefix(seq, k) == SubSeq(seq, 1, Min(k, Len(seq)))

Suffix(seq, k) == SubSeq(seq, k + 1, Len(seq))

\* Every sequence of Len(seq) draws from seq, repeats allowed.
Draws(seq) ==
  { [k \in 1..Len(seq) |-> seq[f[k]]] : f \in [1..Len(seq) -> 1..Len(seq)] }

\* Every order random.shuffle can leave seq in.
Shuffles(seq) ==
  { [k \in 1..Len(seq) |-> seq[f[k]]] :
      f \in { g \in [1..Len(seq) -> 1..Len(seq)] :
                \A a, b \in 1..Len(seq) : g[a] = g[b] => a = b } }

\* d.get(key, default)
Get(d, key, default) == IF key \in DOMAIN d THEN d[key] ELSE default

\* ---------------------------------------------------------------- session

\* pool[:limit] without the max: a negative limit counts from the end
TruncateSlice(pool, limit) ==
  IF limit = << >> THEN pool
  ELSE IF limit[1] >= 0 THEN Prefix(pool, limit[1])
  ELSE Prefix(pool, Max(0, Len(pool) + limit[1]))

\* configure_session: pool[:max(0, int(limit))] when limit is not None
Truncate(pool, limit) ==
  IF limit = << >> THEN pool ELSE Prefix(pool, Max(0, limit[1]))

\* configure_session without its check for an empty pool
ConfigureErrorNoEmptyCheck(grade_level, diff) ==
  IF ~InSeq(Upper(grade_level), GRADE_LEVELS) THEN "ValueError: grade_level"
  ELSE IF ~InSeq(diff, DIFFICULTIES) THEN "ValueError: difficulty"
  ELSE "none"

\* configure_session: the exception it raises, or "none"
ConfigureError(grade_level, diff) ==
  IF ~InSeq(Upper(grade_level), GRADE_LEVELS) THEN "ValueError: grade_level"
  ELSE IF ~InSeq(diff, DIFFICULTIES) THEN "ValueError: difficulty"
  ELSE IF all_questions[Upper(grade_level)][diff] = << >>
       THEN "ValueError: no questions"
  ELSE "none"

\* _session_meta with the grade level as it was given
ConfigureMetaAsGiven(grade_level, diff) ==
  [grade_level |-> grade_level, difficulty |-> diff]

\* _session_meta as configure_session sets it
ConfigureMeta(grade_level, diff) ==
  [grade_level |-> Upper(grade_level), difficulty |-> diff]

\* The bucket when the shuffle is done on the bucket itself.
BucketShuffledInPlace(bucket, pool) == pool

\* The bucket of the bank after configure_session shuffled pool: pool is a
\* copy, list(bucket), so the bucket stays as it was.
BucketAfterShuffle(bucket, pool) == bucket

\* configure_session(grade_level, difficulty, limit), without the caller's
\* next position
configure_session(grade_level, diff, limit) ==
  /\ LET err == ConfigureError(grade_level, diff) IN
     IF err # "none"
     THEN /\ last' = Call("configure_session", << grade_level, diff, limit >>,
                          err, "-", NoQuestion)
          /\ UNCHANGED << all_questions, sessionVars, calls, shadow >>
     ELSE /\ shadow' = NoShadow
          /\ \E pool \in Shuffles(all_questions[Upper(grade_level)][diff]) :
               /\ question_bank' = Truncate(pool, limit)
               /\ all_questions' =
                    [all_questions EXCEPT ![Upper(grade_level)][diff] =
                       BucketAfterShuffle(@, pool)]
          /\ current_index' = 0
          /\ score' = 0
          /\ session_meta' = ConfigureMeta(grade_level, diff)
          /\ calls' = 0
          /\ last' = Call("configure_session", << grade_level, diff, limit >>,
                          "none", "-", NoQuestion)
  /\ UNCHANGED << lines, i, grade, difficulty, savefile, snap >>

ConfigureSession(grade_level, diff, limit) ==
  /\ pc = "idle"
  /\ configure_session(grade_level, diff, limit)
  /\ UNCHANGED pc

\* display_question: what it returns
display_question ==
  IF current_index >= Len(question_bank) THEN NoQuestion
  ELSE question_bank[current_index + 1]

DisplayQuestion ==
  /\ pc = "idle"
  /\ last' = Call("display_question", << >>, "none", "-", display_question)
  /\ UNCHANGED << parserVars, sessionVars, savefile, pc, calls, snap, shadow >>

\* The match by answer text without the lower()
RECURSIVE FirstMatchCaseSensitive(_, _, _)
FirstMatchCaseSensitive(answers, user_clean, k) ==
  IF k > Len(answers) THEN None
  ELSE IF user_clean = answers[k] THEN << Chr(64 + k) >>
  ELSE FirstMatchCaseSensitive(answers, user_clean, k + 1)

\* check_answer: user_letter, from the stripped input
RECURSIVE FirstMatch(_, _, _)
FirstMatch(answers, user_clean, k) ==
  IF k > Len(answers) THEN None
  ELSE IF Lower(user_clean) = Lower(answers[k]) THEN << Chr(64 + k) >>
  ELSE FirstMatch(answers, user_clean, k + 1)

user_letter(answers, user_clean) ==
  IF user_clean = << >> THEN None
  ELSE IF Len(user_clean) = 1 /\ IsAlpha(user_clean) THEN Upper(user_clean)
  ELSE FirstMatch(answers, user_clean, 1)

is_correct(q, user_input) ==
  user_letter(q.answers, Strip(user_input)) = Upper(q.correct_answer)

\* One point whatever the class
PointsAlwaysOne(q) == 1

\* check_answer: what a correct answer adds to score
Points(q) == IF HasGetPoints(q) THEN get_points(q) ELSE 1

\* check_answer: what printing answers[ord(correct_letter)-65] raises after a
\* wrong answer, or "none"; a negative index counts from the end.
WrongAnswerError(q) ==
  LET correct_letter == Upper(q.correct_answer) IN
  IF Len(correct_letter) # 1 THEN "TypeError: ord"
  ELSE IF \/ Ord(correct_letter[1]) - 65 >= Len(q.answers)
          \/ Ord(correct_letter[1]) - 65 < 0 - Len(q.answers)
       THEN "IndexError: list index"
  ELSE "none"

\* check_answer on the question q, once it is known there is one: the
\* exception raised ("none" when it returns), what is returned, and what is
\* added to score.
AnswerOutcome(q, user_input) ==
  IF is_correct(q, user_input)
  THEN [err |-> "none", ret |-> "True", gain |-> Points(q)]
  ELSE IF WrongAnswerError(q) # "none"
       THEN [err |-> WrongAnswerError(q), ret |-> "-", gain |-> 0]
  ELSE [err |-> "none", ret |-> "False", gain |-> 0]

\* check_answer: the exception it raises, or "none"
CheckAnswerError(user_input) ==
  IF current_index >= Len(question_bank) THEN "IndexError: No current question"
  ELSE AnswerOutcome(question_bank[current_index + 1], user_input).err

\* What check_answer(user_input) does in the session shadow holds.
ShadowOutcome(user_input) ==
  IF shadow.current_index >= Len(shadow.question_bank)
  THEN [err |-> "IndexError: No current question", ret |-> "-", gain |-> 0]
  ELSE AnswerOutcome(shadow.question_bank[shadow.current_index + 1], user_input)

ShadowAnswer(user_input) ==
  LET out == ShadowOutcome(user_input) IN
  [shadow EXCEPT !.score = @ + out.gain,
                 !.current_index = IF out.err = "none" THEN @ + 1 ELSE @]

\* calls, one check_answer call later
CountCall == IF calls = -1 \/ calls >= Len(question_bank) THEN -1 ELSE calls + 1

\* check_answer: the raise when there is no current question
RaiseNoCurrentWrapped(user_input) ==
  /\ last' = Call("check_answer", user_input, "IndexError: No current question",
                  "-", NoQuestion)
  /\ current_index' = 0
  /\ UNCHANGED << question_bank, score, session_meta >>

RaiseNoCurrent(user_input) ==
  /\ last' = Call("check_answer", user_input, "IndexError: No current question",
                  "-", NoQuestion)
  /\ UNCHANGED sessionVars

\* check_answer(user_input), without the caller's next position: the cursor
\* advances on the last line, which an exception before it skips
check_answer(user_input) ==
  /\ calls' = CountCall
  /\ shadow' = IF shadow.on THEN ShadowAnswer(user_input) ELSE shadow
  /\ IF current_index >= Len(question_bank)
     THEN RaiseNoCurrent(user_input)
     ELSE LET q == question_bank[current_index + 1]
              out == AnswerOutcome(q, user_input) IN
          /\ score' = score + out.gain
          /\ current_index' = IF out.err = "none" THEN current_index + 1
                              ELSE current_index
          /\ last' = Call("check_answer", user_input, out.err, out.ret, q)
          /\ UNCHANGED << question_bank, session_meta >>

CheckAnswer(user_input) ==
  /\ pc = "idle"
  /\ score <= MaxScore
  /\ check_answer(user_input)
  /\ UNCHANGED << parserVars, savefile, pc, snap >>

ShuffleQuestionBank ==
  /\ pc = "idle"
  /\ question_bank' \in Shuffles(question_bank)
  /\ current_index' = 0
  /\ calls' = -1
  /\ shadow' = NoShadow
  /\ last' = Call("shuffle_question_bank", << >>, "none", "-", NoQuestion)
  /\ UNCHANGED << parserVars, score, session_meta, savefile, pc, snap >>

ResetGame ==
  /\ pc = "idle"
  /\ question_bank' = << >>
  /\ score' = 0
  /\ current_index' = 0
  /\ session_meta' = EmptyMeta
  /\ calls' = -1
  /\ shadow' = NoShadow
  /\ last' = Call("reset_game", << >>, "none", "-", NoQuestion)
  /\ UNCHANGED << parserVars, savefile, pc, snap >>


\* ----------------------------------------------------------- save, resume

\* save_game: one entry of "remaining"
SaveItem(q) ==
  [question_text |-> q.question_text,
   answers |-> q.answers,
   correct |-> q.correct_answer,
   points |-> IF HasGetPoints(q) THEN get_points(q) ELSE 1]

\* save_game dumping every question, the answered ones too
SaveDataWholePool ==
  [meta |-> session_meta,
   score |-> score,
   current_index |-> current_index,
   remaining |-> [k \in 1..Len(question_bank) |-> SaveItem(question_bank[k])]]

\* save_game: the data it dumps
SaveData ==
  [meta |-> session_meta,
   score |-> score,
   current_index |-> current_index,
   remaining |-> [k \in 1..(Len(question_bank) - current_index) |->
                    SaveItem(question_bank[current_index + k])]]

\* save_game(), without the caller's next position
save_game ==
  /\ savefile' = SaveData
  /\ snap' = [taken |-> TRUE, question_bank |-> question_bank,
              current_index |-> current_index, score |-> score,
              session_meta |-> session_meta]
  /\ shadow' = NoShadow
  /\ last' = Call("save_game", << >>, "none", "-", NoQuestion)
  /\ UNCHANGED << parserVars, sessionVars, calls >>

SaveGame ==
  /\ pc = "idle"
  /\ save_game
  /\ UNCHANGED pc

\* Every entry restored as a question of the first tier.
LoadClassFirstTier(item) == "EasyQuestion"

\* load_game: the class chosen from an entry's points
LoadClass(item) ==
  LET points == Get(item, "points", 1) IN
  CASE points = 1 -> "EasyQuestion"
    [] points = 3 -> "MediumQuestion"
    [] points = 5 -> "HardQuestion"
    [] OTHER -> "Question"

\* load_game: item["question_text"], item["answers"], item["correct"] all exist
ItemComplete(item) ==
  {"question_text", "answers", "correct"} \subseteq DOMAIN item

LoadItem(item) ==
  NewQuestion(LoadClass(item), item.question_text, item.answers, item.correct)

\* load_game taking the cursor from the file
LoadIndexStored(data) == Get(data, "current_index", 0)

\* The session save_game saved, going on as if it had not been saved.
ShadowOfSave ==
  IF snap.taken
  THEN [on |-> TRUE, question_bank |-> snap.question_bank,
        current_index |-> snap.current_index, score |-> snap.score]
  ELSE NoShadow

\* load_game: the current index the session starts at
LoadIndex(data) == 0

\* load_game: the exception it raises, "none" when it returns
LoadError ==
  IF savefile = NoFile THEN "FileNotFoundError"
  ELSE LET remaining == Get(savefile, "remaining", << >>) IN
       IF \A k \in 1..Len(remaining) : ItemComplete(remaining[k])
       THEN "none" ELSE "KeyError"

\* load_game(), without the caller's next position
load_game ==
  /\ IF savefile = NoFile
     THEN /\ last' = Call("load_game", << >>, "FileNotFoundError", "-", NoQuestion)
          /\ UNCHANGED << sessionVars, calls, shadow >>
     ELSE LET data == savefile
              remaining == Get(data, "remaining", << >>) IN
          /\ session_meta' = Get(data, "meta", EmptyMeta)
          /\ score' = Get(data, "score", 0)
          /\ current_index' = LoadIndex(data)
          /\ calls' = -1
          /\ IF \A k \in 1..Len(remaining) : ItemComplete(remaining[k])
             THEN /\ question_bank' = [k \in 1..Len(remaining) |->
                                         LoadItem(remaining[k])]
                  /\ shadow' = ShadowOfSave
                  /\ last' = Call("load_game", << >>, "none", "-", NoQuestion)
             ELSE /\ question_bank' = question_bank
                  /\ shadow' = NoShadow
                  /\ last' = Call("load_game", << >>, "KeyError", "-", NoQuestion)
  /\ UNCHANGED << parserVars, savefile, snap >>

LoadGame ==
  /\ pc = "idle"
  /\ load_game
  /\ UNCHANGED pc

\* Somebody else writes savegame.json.
EditSave ==
  /\ pc = "idle"
  /\ savefile' \in EditedSaves
  /\ snap' = NoSnap
  /\ last' = Call("edit", << >>, "none", "-", NoQuestion)
  /\ UNCHANGED << parserVars, sessionVars, pc, calls, shadow >>

\* ------------------------------------------------------------------- play

\* _prompt_answer: what it returns for a line that is not blank
prompt_answer(line) ==
  LET user_in == Strip(line) IN
  IF Lower(user_in) = << "s" >> THEN << "S" >>
  ELSE IF Len(user_in) = 1 /\ Upper(user_in) \in {<< "A" >>, << "B" >>, << "C" >>, << "D" >>}
       THEN Upper(user_in)
  ELSE user_in

\* play: the trim to num_questions, up to the loop
PlayStart(num_questions) ==
  /\ pc = "idle"
  /\ score <= MaxScore
  /\ IF num_questions = << >>
     THEN UNCHANGED << question_bank, current_index, calls, shadow >>
     ELSE /\ question_bank' = Prefix(Suffix(question_bank, current_index),
                                     Max(0, num_questions[1]))
          /\ current_index' = 0
          /\ calls' = -1
          /\ shadow' = NoShadow
  /\ pc' = "play_display"
  /\ last' = Call("play", << >>, "none", "-", NoQuestion)
  /\ UNCHANGED << parserVars, score, session_meta, savefile, snap >>

\* play: display_question returns a question, and the player is prompted
PlayDisplay ==
  /\ pc = "play_display"
  /\ display_question # NoQuestion
  /\ pc' = "play_prompt"
  /\ last' = Call("display_question", << >>, "none", "-", display_question)
  /\ UNCHANGED << parserVars, sessionVars, savefile, calls, snap, shadow >>

\* play: the player's line goes to check_answer; what check_answer raises
\* ends play
PlayAnswer(line) ==
  /\ pc = "play_prompt"
  /\ Strip(line) # << >>
  /\ check_answer(prompt_answer(line))
  /\ pc' = IF CheckAnswerError(prompt_answer(line)) = "none"
           THEN "play_display" ELSE "idle"
  /\ UNCHANGED << parserVars, savefile, snap >>

\* play: display_question returns None, and the score goes to the player
PlayEnd ==
  /\ pc = "play_display"
  /\ display_question = NoQuestion
  /\ pc' = "idle"
  /\ last' = [Call("play", << >>, "none", "-", NoQuestion) EXCEPT !.player = 0 + score]
  /\ UNCHANGED << parserVars, sessionVars, savefile, calls, snap, shadow >>

\* ------------------------------------------------------------------- main

\* The lines the player types at the answer prompt of the loops.
LoopAnswers ==
  { << "b" >>,
    << "s" >>,
    << "e" >> }

\* main, choice 1: configure_session on the chosen grade and difficulty; a
\* ValueError is printed and the menu comes back
MainNewSession(grade_level, diff, limit) ==
  /\ pc = "idle"
  /\ configure_session(grade_level, diff, limit)
  /\ pc' = IF ConfigureError(grade_level, diff) = "none"
           THEN "main_display" ELSE "idle"

\* main, choice 2: load_game; any exception is printed and the menu comes back
MainResume ==
  /\ pc = "idle"
  /\ load_game
  /\ pc' = IF LoadError = "none" THEN "main_display" ELSE "idle"

\* main, either loop: display_question returns a question, and the player is
\* prompted
MainDisplay ==
  /\ pc = "main_display"
  /\ display_question # NoQuestion
  /\ pc' = "main_prompt"
  /\ last' = Call("display_question", << >>, "none", "-", display_question)
  /\ UNCHANGED << parserVars, sessionVars, savefile, calls, snap, shadow >>

\* main, either loop: 'S' saves and leaves the loop, any other line goes to
\* check_answer; what check_answer raises is caught nowhere and ends main
MainAnswer(line) ==
  /\ pc = "main_prompt"
  /\ Strip(line) # << >>
  /\ LET answer == prompt_answer(line) IN
     IF Upper(answer) = << "S" >>
     THEN /\ save_game
          /\ pc' = "idle"
     ELSE /\ check_answer(answer)
          /\ pc' = IF CheckAnswerError(answer) = "none"
                   THEN "main_display" ELSE "crashed"
          /\ UNCHANGED << parserVars, savefile, snap >>

\* main, either loop: display_question returns None, the score goes to the
\* player and the menu comes back
MainFinish ==
  /\ pc = "main_display"
  /\ display_question = NoQuestion
  /\ pc' = "idle"
  /\ last' = [Call("main", << >>, "none", "-", NoQuestion) EXCEPT !.player = 0 + score]
  /\ UNCHANGED << parserVars, sessionVars, savefile, calls, snap, shadow >>

Main(limits, inputs) ==
  \/ \E grade_level \in GradeTags, diff \in DifficultyTags, limit \in limits :
       MainNewSession(grade_level, diff, limit)
  \/ MainResume
  \/ MainDisplay
  \/ \E line \in inputs : MainAnswer(line)
  \/ MainFinish

Configure(grades, difficulties, limits) ==
  \E grade_level \in grades, diff \in difficulties, limit \in limits :
    ConfigureSession(grade_level, diff, limit)

Answer(inputs) == \E user_input \in inputs : CheckAnswer(user_input)

Play(limits, inputs) ==
  \/ \E num_questions \in limits : PlayStart(num_questions)
  \/ PlayDisplay
  \/ \E line \in inputs : PlayAnswer(line)
  \/ PlayEnd

\* Every operation, on few inputs.
Next == \/ Parse
        \/ Configure(FewGrades, FewDifficulties, FewLimits)
        \/ DisplayQuestion
        \/ Answer(FewAnswers)
        \/ ShuffleQuestionBank
        \/ ResetGame
        \/ SaveGame
        \/ LoadGame
        \/ EditSave
        \/ Play(FewLimits, FewAnswers)

Spec == Init /\ [][Next]_vars

\* configure_session on every argument, and the calls that show its result.
NextConfigure == \/ Parse
                 \/ Configure(GradeInputs, DifficultyInputs, LimitInputs)
                 \/ DisplayQuestion
                 \/ Answer(FewAnswers)
                 \/ ResetGame

SpecConfigure == Init /\ [][NextConfigure]_vars

\* check_answer on every input, on questions of the bank and of a save file.
NextAnswer == \/ Parse
              \/ Configure(FewGrades, FewDifficulties, FewLimits)
              \/ Answer(AnswerInputs)
              \/ ShuffleQuestionBank
              \/ EditSave
              \/ LoadGame
              \/ Play(FewLimits, AnswerInputs)

SpecAnswer == Init /\ [][NextAnswer]_vars

\* The parser on every file, and the calls that show the bank it built.
NextParse == \/ Parse
             \/ Configure(FewGrades, FewDifficulties, FewLimits)
             \/ DisplayQuestion

SpecParse == InitParse /\ [][NextParse]_vars

\* The parser alone, on the six files and on every generated one; the scan
\* loop is sequential code, so a step that can be taken is taken.
SpecScan == InitScan /\ [][Parse]_vars /\ WF_vars(Parse)

\* The loops that drive a session: the two of main, and play.
NextLoops == \/ Parse
             \/ Main(FewLimits, LoopAnswers)
             \/ Configure(FewGrades, FewDifficulties, FewLimits)
             \/ Play(FewLimits, LoopAnswers)

SpecLoops == Init /\ [][NextLoops]_vars

\* ----------------------------------------------------------------- claims

\* The step is a call of check_answer (by a caller or by play) on a session
\* that has a current question.
AnswersCurrent == last'.op = "check_answer" /\ current_index < Len(question_bank)

\* The points of a question: get_points() of its class, and the 1 that
\* save_game stores for a question of the base class.
StoredPoints(q) == SaveItem(q).points

\* C1: in every reachable state 0 <= cursor <= len(pool).
C1_CursorInRange ==
  0 <= current_index /\ current_index <= Len(question_bank)

C1_Witness ==
  /\ last.op = "check_answer" /\ last.err = "none"
  /\ Len(question_bank) = 2 /\ current_index = 2

\* C2: within a session score never decreases and changes only in
\* check_answer: a correct answer to the question at the cursor adds that
\* question's points, an incorrect one adds nothing, and display_question,
\* shuffle_question_bank and save_game leave score unchanged.
C2_ScoreOnlyByCorrectAnswer ==
  [][ /\ last'.op \notin {"configure_session", "load_game", "reset_game"}
         => /\ score' >= score
            /\ score' # score => AnswersCurrent
      /\ AnswersCurrent
         => LET q == question_bank[current_index + 1] IN
            /\ is_correct(q, last'.input)
               => score' = score + StoredPoints(q) /\ last'.ret = "True"
            /\ ~is_correct(q, last'.input)
               => score' = score /\ last'.ret # "True"
      /\ last'.op \in {"display_question", "shuffle_question_bank", "save_game"}
         => score' = score ]_vars

C2_Witness ==
  /\ last.op = "check_answer" /\ last.ret = "True"
  /\ last.q.cls = "MediumQuestion" /\ score >= 3

\* C3: on a session that is not exhausted check_answer advances the cursor by
\* exactly 1, whatever the question record and the input.
C3_AlwaysAdvances ==
  [][ AnswersCurrent => current_index' = current_index + 1 ]_vars

\* C4: after a successful configure_session, with no shuffle, load, reset or
\* trim since, display_question returns the question at the cursor while
\* fewer than len(pool) check_answer calls were made, and None after exactly
\* len(pool) calls.
C4_ExhaustedAfterLenCalls ==
  (last.op = "display_question" /\ calls >= 0)
  => /\ calls < Len(question_bank)
        => /\ last.q # NoQuestion
           /\ last.q = question_bank[current_index + 1]
     /\ calls = Len(question_bank) => last.q = NoQuestion

\* C5: check_answer on an exhausted session raises the no-current-question
\* error and leaves pool, cursor, score and meta unchanged.
C5_ExhaustedCheckRaises ==
  [][ (last'.op = "check_answer" /\ current_index >= Len(question_bank))
      => /\ last'.err = "IndexError: No current question"
         /\ UNCHANGED << question_bank, current_index, score, session_meta >> ]_vars

C5_Witness ==
  /\ last.op = "check_answer"
  /\ last.err = "IndexError: No current question"
  /\ Len(question_bank) > 0 /\ current_index = Len(question_bank)

\* The arguments of the configure_session call that last records.
ArgGrade == last.input[1]

ArgDifficulty == last.input[2]

ArgLimit == last.input[3]

\* C6: a successful configure_session with limit k on a bucket of n questions
\* leaves len(pool) = min(max(k, 0), n), and n with limit None; a negative
\* limit is no error and leaves an empty pool.
C6_ConfigureLength ==
  last.op = "configure_session"
  => LET valid == InSeq(Upper(ArgGrade), GRADE_LEVELS)
                  /\ InSeq(ArgDifficulty, DIFFICULTIES) IN
     /\ last.err = "none"
        => LET n == Len(all_questions[Upper(ArgGrade)][ArgDifficulty]) IN
           Len(question_bank) = IF ArgLimit = << >> THEN n
                                ELSE Min(Max(ArgLimit[1], 0), n)
     /\ (valid /\ ArgLimit # << >>)
        => ( all_questions[Upper(ArgGrade)][ArgDifficulty] # << >>
             /\ ArgLimit[1] < 0
             => last.err = "none" /\ question_bank = << >> )

C6_Witness ==
  /\ last.op = "configure_session" /\ last.err = "none"
  /\ ArgLimit = << 1 >>
  /\ Len(all_questions[Upper(ArgGrade)][ArgDifficulty]) = 2
  /\ Len(question_bank) = 1

\* The two ValueErrors of a grade or difficulty that is not a tag.
InvalidSelection == {"ValueError: grade_level", "ValueError: difficulty"}

\* C7, as claimed: configure_session raises the invalid-selection error
\* whenever the grade argument is not one of the two grade tags or the
\* difficulty argument is not one of the three difficulty tags, the
\* empty-pool error whenever the bank holds no question for a valid
\* combination, and succeeds in every other case.
C7_Original ==
  last.op = "configure_session"
  => IF ~InSeq(ArgGrade, GRADE_LEVELS) \/ ~InSeq(ArgDifficulty, DIFFICULTIES)
     THEN last.err \in InvalidSelection
     ELSE IF all_questions[ArgGrade][ArgDifficulty] = << >>
     THEN last.err = "ValueError: no questions"
     ELSE last.err = "none"

\* C7, amended: the grade argument is compared after upper-casing it, so it
\* is the upper-cased grade argument that must be one of the two grade tags.
C7_UpperCasedGrade ==
  last.op = "configure_session"
  => IF ~InSeq(Upper(ArgGrade), GRADE_LEVELS) \/ ~InSeq(ArgDifficulty, DIFFICULTIES)
     THEN last.err \in InvalidSelection
     ELSE IF all_questions[Upper(ArgGrade)][ArgDifficulty] = << >>
     THEN last.err = "ValueError: no questions"
     ELSE last.err = "none"

C7_Witness ==
  /\ last.op = "configure_session"
  /\ ArgGrade = HIGH_SCHOOL /\ ArgDifficulty = Easy
  /\ last.err = "ValueError: no questions"

\* text, options, correct letter and points of a question
Fields(q) == << q.question_text, q.answers, q.correct_answer, StoredPoints(q) >>

\* C8: load_game of what save_game wrote reproduces score and meta, sets the
\* cursor to 0 and yields the questions pool[cursor:] of the saved state, in
\* order, field by field.
C8_RoundTrip ==
  (last.op = "load_game" /\ snap.taken)
  => /\ last.err = "none"
     /\ score = snap.score
     /\ session_meta = snap.session_meta
     /\ current_index = 0
     /\ Len(question_bank) = Len(snap.question_bank) - snap.current_index
     /\ \A k \in 1..Len(question_bank) :
          Fields(question_bank[k]) = Fields(snap.question_bank[snap.current_index + k])

C8_Witness ==
  /\ last.op = "load_game" /\ snap.taken
  /\ snap.current_index = 1 /\ Len(snap.question_bank) = 2
  /\ snap.score > 0
  /\ Len(question_bank) = 1

\* C9: a question that load_game restores from a record whose points p is
\* none of 1, 3 and 5 is a record without tier that keeps p: a correct answer
\* adds p, and saving it again stores p.
C9_GenericKeepsPoints ==
  (last.op = "load_game" /\ last.err = "none")
  => \A k \in 1..Len(question_bank) :
       LET item == savefile.remaining[k] IN
       ("points" \in DOMAIN item /\ item.points \notin {1, 3, 5})
       => /\ question_bank[k].cls = "Question"
          /\ Points(question_bank[k]) = item.points
          /\ SaveItem(question_bank[k]).points = item.points

\* The one-letter inputs that name option k, and an option's text in some
\* letter case.
LetterInputs(k) == {<< Chr(64 + k) >>, << Chr(96 + k) >>}

CaseVariant(input, text) == Lower(input) = Lower(text)

\* What a step of check_answer did, as AnswerOutcome states it.
StepOutcome == [err |-> last'.err, ret |-> last'.ret, gain |-> score' - score]

\* C10, as claimed: for every question and each of its options A to D, the
\* option's text in any letter case resolves to the letter of that option,
\* as the one-letter inputs do, with the same result and score change.
C10_Original ==
  [][ AnswersCurrent
      => LET q == question_bank[current_index + 1] IN
         \A k \in 1..Min(4, Len(q.answers)) :
           CaseVariant(last'.input, q.answers[k])
           => \A letter \in LetterInputs(k) :
                /\ user_letter(q.answers, Strip(last'.input))
                     = user_letter(q.answers, Strip(letter))
                /\ StepOutcome = AnswerOutcome(q, letter) ]_vars

\* Option k of q has a text that is not empty, has no blank at either end, is
\* not one single letter, and is the text of no earlier option in any case.
PlainOption(q, k) ==
  LET text == q.answers[k] IN
  /\ text # << >>
  /\ Strip(text) = text
  /\ ~(Len(text) = 1 /\ IsAlpha(text))
  /\ \A j \in 1..(k - 1) : ~CaseVariant(q.answers[j], text)

\* C10, amended: that holds of the options whose text is not empty, has no
\* blank at either end, is not one single letter (a one-letter input is
\* always read as an option letter) and differs in every letter case from
\* the text of every earlier option (the first match wins).
C10_PlainOptions ==
  [][ AnswersCurrent
      => LET q == question_bank[current_index + 1] IN
         \A k \in 1..Min(4, Len(q.answers)) :
           (PlainOption(q, k) /\ CaseVariant(last'.input, q.answers[k]))
           => \A letter \in LetterInputs(k) :
                /\ user_letter(q.answers, Strip(last'.input))
                     = user_letter(q.answers, Strip(letter))
                /\ StepOutcome = AnswerOutcome(q, letter) ]_vars

C10_Witness ==
  /\ last.op = "check_answer" /\ last.err = "none"
  /\ last.q # NoQuestion
  /\ last.input = << "A", "B" >>
  /\ last.q.answers[1] = << "A", "b" >>
  /\ last.ret = "False"

\* The records the bank index holds, and those of the session pool.
BankRecords ==
  UNION { {all_questions[g][d][k] : k \in 1..Len(all_questions[g][d])} :
            g \in GradeTags, d \in DifficultyTags }

PoolRecords == {question_bank[k] : k \in 1..Len(question_bank)}

OptionLetters == {<< "A" >>, << "B" >>, << "C" >>, << "D" >>}

\* C11: once parsing has returned the bank, every record of the bank index
\* and every record of the session pool has exactly 4 options and a
\* correct_answer that is one of the letters A, B, C, D.
C11_RecordsWellFormed ==
  pc \notin {"parsing", "failed"}
  => \A q \in BankRecords \cup PoolRecords :
       Len(q.answers) = 4 /\ q.correct_answer \in OptionLetters

\* The points the three tiers are worth.
TierPoints(d) == CASE d = Easy -> 1 [] d = Medium -> 3 [] d = Hard -> 5

\* C13: every question the parser stores under difficulty d, in either
\* grade, is worth 1 point if d is Easy, 3 if d is Medium, 5 if d is Hard.
C13_PointsByDifficulty ==
  \A g \in GradeTags, d \in DifficultyTags :
    \A k \in 1..Len(all_questions[g][d]) :
      /\ HasGetPoints(all_questions[g][d][k])
      /\ get_points(all_questions[g][d][k]) = TierPoints(d)

C13_Witness ==
  /\ pc = "idle"
  /\ Len(all_questions[ELEMENTARY][Easy]) = 2
  /\ Len(all_questions[ELEMENTARY][Medium]) = 1
  /\ Len(all_questions[HIGH_SCHOOL][Hard]) = 1

\* The scan is at a recognized question header of an active section.
AtQuestionHeader == Scanning /\ CurrentKind = "question"

\* The block whose header is line start_idx (0-based) is cut short: one of
\* the 5 lines after the header is past the end of input, or is the header
\* of the next question.
CutShort(ls, start_idx) ==
  \E k \in 1..5 :
    IF start_idx + 1 + k > Len(ls) THEN TRUE
    ELSE looks_like_qnum(Strip(ls[start_idx + 1 + k]))

\* C12, as stated: a recognized question header followed by fewer than 4
\* option lines or by no answer line makes parsing fail with an IndexError,
\* and no record is built from the block.
C12_Original ==
  [][ (AtQuestionHeader /\ CutShort(lines, i))
      => /\ pc' = "failed"
         /\ last'.err = "IndexError"
         /\ all_questions' = all_questions ]_vars

\* C12, amended: parsing fails with an IndexError whenever the input ends
\* less than 5 lines after a recognized question header, a record is added
\* to the bank only from a header that has 5 lines after it, and a parse
\* that failed returns no bank.
C12_CutByEndOfInput ==
  [][ /\ (AtQuestionHeader /\ Len(lines) < i + 6)
         => /\ pc' = "failed"
            /\ last'.err = "IndexError"
            /\ all_questions' = all_questions
      /\ all_questions' # all_questions
         => (AtQuestionHeader /\ Len(lines) >= i + 6)
      /\ pc = "failed" => pc' = "failed" ]_vars

C12_Witness ==
  /\ lines = BankF
  /\ pc = "failed"
  /\ last.err = "IndexError"
  /\ last.input = << 8 >>
  /\ Len(all_questions[HIGH_SCHOOL][Easy]) = 1

\* The grade tag a stripped line is the header of, or None.
GradeHeaderTag(line) ==
  IF line = << >> THEN None
  ELSE IF StartsWith(Upper(line), ELEMENTARY_LEVEL) THEN ELEMENTARY
  ELSE IF StartsWith(Upper(line), HIGH_SCHOOL_LEVEL) THEN HIGH_SCHOOL
  ELSE None

\* The difficulty tag a stripped line starts with, or None.
DifficultyHeaderTag(line) ==
  IF StartsWith(line, Easy) THEN Easy
  ELSE IF StartsWith(line, Medium) THEN Medium
  ELSE IF StartsWith(line, Hard) THEN Hard
  ELSE None

\* The bank after one record was appended to the bucket of g and d.
AppendedTo(g, d) ==
  /\ \A g2 \in GradeTags, d2 \in DifficultyTags :
       (g2 # g \/ d2 # d) => all_questions'[g2][d2] = all_questions[g2][d2]
  /\ Len(all_questions'[g][d]) = Len(all_questions[g][d]) + 1
  /\ \A k \in 1..Len(all_questions[g][d]) :
       all_questions'[g][d][k] = all_questions[g][d][k]

\* C14: during parsing a block is recorded only while current_grade and
\* current_difficulty are both set, and is appended at the end of the bucket
\* they name; current_grade is the tag of the most recent grade header and
\* current_difficulty that of the most recent difficulty header since it (a
\* grade header clears it); a question-like line met while either is unset
\* is skipped; the scan goes on 6 lines after the header of a recorded
\* block, with both unchanged, so none of its 5 lines is read as a header.
C14_SectionTracking ==
  [][ Scanning
      => LET line == Strip(lines[i + 1])
             g == GradeHeaderTag(line)
             d == IF g = None /\ grade # None
                  THEN DifficultyHeaderTag(line) ELSE None
         IN
         /\ g # None => (grade' = g /\ difficulty' = None /\ i' = i + 1)
         /\ g = None => grade' = grade
         /\ d # None => (difficulty' = d /\ i' = i + 1)
         /\ (g = None /\ d = None) => difficulty' = difficulty
         /\ all_questions' # all_questions
            => /\ g = None /\ d = None
               /\ grade # None /\ difficulty # None
               /\ looks_like_qnum(line)
               /\ AppendedTo(grade, difficulty)
               /\ i' = i + 6
         /\ (g = None /\ d = None /\ looks_like_qnum(line)
             /\ (grade = None \/ difficulty = None))
            => (all_questions' = all_questions /\ i' = i + 1)
         /\ i' = i + 6 => all_questions' # all_questions ]_vars

\* The block of BankC whose option lines "Easy" and "HIGH SCHOOL LEVEL" read
\* as headers was recorded under ELEMENTARY/Medium, after a question-like
\* line was skipped between the grade header and the difficulty header.
C14_Witness ==
  /\ lines = BankC
  /\ pc = "parsing"
  /\ i = 10
  /\ last.ret = "question"
  /\ grade = ELEMENTARY /\ difficulty = Medium
  /\ Len(all_questions[ELEMENTARY][Medium]) = 1
  /\ all_questions[ELEMENTARY][Medium][1].answers[2] = Easy

\* How many times x occurs in seq.
Count(x, seq) == Cardinality({k \in 1..Len(seq) : seq[k] = x})

\* C15: shuffle_question_bank leaves the pool a permutation of the whole
\* pool it had (every question as many times as before, answered ones
\* included), sets the cursor to 0 and leaves score and meta unchanged.
C15_ShuffleFrame ==
  [][ last'.op = "shuffle_question_bank"
      => /\ Len(question_bank') = Len(question_bank)
         /\ \A x \in PoolRecords \cup PoolRecords' :
              Count(x, question_bank') = Count(x, question_bank)
         /\ current_index' = 0
         /\ score' = score
         /\ session_meta' = session_meta ]_vars

\* After one right answer and a shuffle, the pool of 2 is whole again and
\* the question answered before can be displayed and answered again.
C15_Witness ==
  /\ last.op = "shuffle_question_bank"
  /\ Len(question_bank) = 2
  /\ score = 1
  /\ current_index = 0
  /\ display_question # NoQuestion
  /\ display_question.correct_answer = << "B" >>

\* C16: after a successful configure_session(grade, difficulty, limit)
\* every question of the pool is a question of the bank bucket of that grade
\* (the tag the argument upper-cases to) and difficulty, none occurs in the
\* pool more often than in that bucket, the cursor is 0, the score is 0 and
\* meta holds that grade tag and that difficulty.
C16_ConfigureResult ==
  (last.op = "configure_session" /\ last.err = "none")
  => LET bucket == all_questions[Upper(ArgGrade)][ArgDifficulty] IN
     /\ \A q \in PoolRecords :
          /\ Count(q, bucket) >= 1
          /\ Count(q, question_bank) <= Count(q, bucket)
     /\ current_index = 0
     /\ score = 0
     /\ session_meta.grade_level \in GradeTags
     /\ session_meta.grade_level = Upper(ArgGrade)
     /\ session_meta.difficulty = ArgDifficulty

\* configure_session('elementary', 'Easy', 2) on the bucket of 2 questions.
C16_Witness ==
  /\ last.op = "configure_session" /\ last.err = "none"
  /\ ArgGrade = << "e", "l", "e", "m", "e", "n", "t", "a", "r", "y" >>
  /\ ArgLimit = << 2 >>
  /\ Len(question_bank) = 2
  /\ session_meta.grade_level = ELEMENTARY

\* C17: once the parser has built it, no session operation changes the bank
\* index: every bucket keeps its content and its order.
C17_BankUnchanged ==
  [][ pc # "parsing" => all_questions' = all_questions ]_vars

\* configure_session left the pool in the other order than the bucket.
C17_Witness ==
  /\ last.op = "configure_session" /\ last.err = "none"
  /\ Len(question_bank) = 2
  /\ Len(all_questions[ELEMENTARY][Easy]) = 2
  /\ question_bank[1] = all_questions[ELEMENTARY][Easy][2]
  /\ question_bank[2] = all_questions[ELEMENTARY][Easy][1]
  /\ all_questions[ELEMENTARY][Easy][1].question_text = << "2", "+", "2", "?" >>

\* C19: a load_game that fails, the save file missing or one of its records
\* malformed, leaves pool, cursor, score and meta as they were.
C19_FailedLoadKeepsSession ==
  [][ (last'.op = "load_game" /\ last'.err # "none")
      => /\ question_bank' = question_bank
         /\ current_index' = current_index
         /\ score' = score
         /\ session_meta' = session_meta ]_vars

\* C18: a session resumed by load_game from what save_game wrote, and
\* answered from there, goes as the saved session would have gone on the same
\* inputs without the save and the load: every check_answer gives the same
\* result (correct, incorrect or the same exception), the same number of
\* questions remains, and the score is the same, at the end as at every step.
C18_ResumeEquivalence ==
  [][ /\ (shadow.on /\ last'.op = "check_answer")
         => StepOutcome = ShadowOutcome(last'.input)
      /\ shadow'.on
         => /\ score' = shadow'.score
            /\ Len(question_bank') - current_index'
                 = Len(shadow'.question_bank) - shadow'.current_index ]_vars

\* Saved after one wrong answer on a pool of 2, loaded, and the question that
\* remained answered right: both sessions are at their end with score 1.
C18_Witness ==
  /\ shadow.on
  /\ last.op = "check_answer" /\ last.ret = "True"
  /\ Len(shadow.question_bank) = 2 /\ shadow.current_index = 2
  /\ Len(question_bank) = 1 /\ current_index = 1
  /\ score = 1 /\ shadow.score = 1

\* The loop positions at which a question is displayed, and at which the
\* player is prompted after one was.
LoopDisplays == {"main_display", "play_display"}

LoopPrompts == {"main_prompt", "play_prompt"}

\* C20: in the loops of main and in play, every check_answer follows a
\* display_question that returned the question at the cursor, so none is
\* called on an exhausted session; a loop ends when display_question
\* returns None, and when the player chooses save-and-quit ('S' at the
\* prompt): the game is saved and no check_answer is called.
C20_LoopDiscipline ==
  [][ /\ (pc \in LoopPrompts /\ last'.op = "check_answer")
         => /\ last.op = "display_question"
            /\ current_index < Len(question_bank)
            /\ last.q = question_bank[current_index + 1]
      /\ (pc \in LoopDisplays /\ display_question = NoQuestion)
         => pc' = "idle"
      /\ (pc \in LoopPrompts
          /\ (last'.op = "save_game" \/ last'.input = << "S" >>))
         => (last'.op = "save_game" /\ pc' = "idle") ]_vars

\* Display before answer, and the end at None, alone: they hold of all three loops.
LoopsDisplayBeforeAnswer ==
  [][ /\ (pc \in LoopPrompts /\ last'.op = "check_answer")
         => /\ last.op = "display_question"
            /\ current_index < Len(question_bank)
            /\ last.q = question_bank[current_index + 1]
      /\ (pc \in LoopDisplays /\ display_question = NoQuestion)
         => pc' = "idle" ]_vars

\* What an iteration of the scan loop does to the scan index.
ScanStep ==
  IF i < Len(lines)
  THEN \/ /\ CurrentKind \in {"blank", "elementary", "high school", "Easy",
                              "Medium", "Hard", "other"}
          /\ i' = i + 1 /\ pc' = "parsing"
       \/ /\ CurrentKind = "question"
          /\ i' = i + 6 /\ pc' = "parsing"
       \/ /\ CurrentKind = "question"
          /\ i' = i /\ pc' = "failed"
          /\ last'.err = "IndexError"
  ELSE i' = i /\ pc' = "idle"

\* C21: the parser terminates on every file: an iteration of the scan loop
\* raises the scan index by 1 (blank line, header, skipped line) or by 6
\* (question block) and never past the end of the lines, or it stops with
\* the failure; so the scan comes to the end of input and returns the bank,
\* or has failed.
C21_ParserTerminates ==
  /\ [][ pc = "parsing" => (ScanStep /\ i' <= Len(lines)) ]_vars
  /\ <>(pc \in {"idle", "failed"})
  /\ [](pc = "idle" => i = Len(lines))

\* The scan of a generated file of 8 lines came to its end, one block of 6
\* lines recorded on the way.
C21_Witness ==
  /\ lines \in GeneratedFiles
  /\ Len(lines) = 8
  /\ pc = "idle"
  /\ i = Len(lines)
  /\ Len(all_questions[ELEMENTARY][Easy]) = 1

====
